---------------------------- MODULE Spec2Model ----------------------------
(***************************************************************************)
(* A model of simple-proxy (src/src/main.rs): a single-target HTTP proxy   *)
(* that blocks configured folders, forwards GET and POST requests to the   *)
(* target and rewrites text/plain content types to UTF-8.                  *)
(*                                                                         *)
(* Strings are sequences of symbols.  A symbol stands for one character    *)
(* ("/", "?", " ") or for a run of characters that the program never       *)
(* splits ("private", "room", "http://localhost:8000"); no symbol is a     *)
(* prefix of another, so prefix tests on symbol sequences agree with       *)
(* prefix tests on the strings they stand for.                             *)
(***************************************************************************)
EXTENDS Integers, Sequences, FiniteSets, TLC

\* ------------------------------------------------------------------ bounds
\* longest request path given to is_path_blocked, in symbols
MaxPathLen == 4
\* longest blocked_folders entry, in symbols
MaxEntryLen == 1
\* longest blocked_folders list
MaxBlocked == 2

\* ------------------------------------------------------------- string kit
SeqsUpTo(S, n) == UNION {[1..k -> S] : k \in 0..n}

\* the symbols paths and blocklist entries are made of
PathSymbols == {"/", "private", "room"}

\* str::starts_with(&str)
starts_with(s, prefix) ==
    /\ Len(prefix) <= Len(s)
    /\ SubSeq(s, 1, Len(prefix)) = prefix

\* &s[n..]
slice_from(s, n) == SubSeq(s, n + 1, Len(s))

\* mutant: one leading match is stripped, as str::strip_prefix would
trim_start_once(s, c) ==
    IF Len(s) > 0 /\ s[1] = c THEN Tail(s) ELSE s

\* str::trim_start_matches(char): strips the pattern as long as it matches
RECURSIVE trim_start_matches(_, _)
trim_start_matches(s, c) ==
    IF Len(s) > 0 /\ s[1] = c THEN trim_start_matches(Tail(s), c) ELSE s

\* --------------------------------------------------------- is_path_blocked
\* mutant: the first entry that is a prefix of the path decides
RECURSIVE scan_first_prefix_decides(_, _, _)
scan_first_prefix_decides(normalized_path, blocked_folders, i) ==
    IF i > Len(blocked_folders) THEN FALSE
    ELSE LET blocked_folder == blocked_folders[i] IN
         IF starts_with(normalized_path, blocked_folder)
         THEN LET after_folder == slice_from(normalized_path, Len(blocked_folder)) IN
              after_folder = <<>> \/ starts_with(after_folder, <<"/">>)
         ELSE scan_first_prefix_decides(normalized_path, blocked_folders, i + 1)

\* the body of the for loop, from entry i on: true at the first match
RECURSIVE scan_blocked_folders(_, _, _)
scan_blocked_folders(normalized_path, blocked_folders, i) ==
    IF i > Len(blocked_folders) THEN FALSE
    ELSE LET blocked_folder == blocked_folders[i] IN
         IF /\ starts_with(normalized_path, blocked_folder)
            /\ LET after_folder == slice_from(normalized_path, Len(blocked_folder)) IN
               after_folder = <<>> \/ starts_with(after_folder, <<"/">>)
         THEN TRUE
         ELSE scan_blocked_folders(normalized_path, blocked_folders, i + 1)

\* mutant: the prefix test alone, without the folder-boundary test
is_path_blocked_prefix_only(path, blocked_folders) ==
    LET normalized_path == trim_start_matches(path, "/") IN
    \E i \in 1..Len(blocked_folders) :
        starts_with(normalized_path, blocked_folders[i])

\* mutant: an empty entry is skipped
is_path_blocked_skip_empty(path, blocked_folders) ==
    LET normalized_path == trim_start_matches(path, "/") IN
    scan_blocked_folders(normalized_path,
                         SelectSeq(blocked_folders, LAMBDA e : e # <<>>), 1)

is_path_blocked(path, blocked_folders) ==
    LET normalized_path == trim_start_matches(path, "/") IN
    scan_blocked_folders(normalized_path, blocked_folders, 1)


\* ------------------------------------------------------------ Option<T>
\* None is the empty sequence, Some(x) the one-element sequence
None == <<>>
Some(x) == <<x>>

\* ------------------------------------------------------------ HeaderMap
\* http::HeaderMap: one entry per header name, in order of first insertion,
\* each holding that name's values in insertion order
header_index(map, name) ==
    IF \E i \in 1..Len(map) : map[i].name = name
    THEN CHOOSE i \in 1..Len(map) : map[i].name = name
    ELSE 0

\* HeaderMap::append: adds a value, keeping the values already there
header_append(map, name, value) ==
    LET i == header_index(map, name) IN
    IF i = 0 THEN Append(map, [name |-> name, values |-> <<value>>])
    ELSE [map EXCEPT ![i].values = Append(@, value)]

\* HeaderMap::insert: sets the value, dropping the values already there
header_insert(map, name, value) ==
    LET i == header_index(map, name) IN
    IF i = 0 THEN Append(map, [name |-> name, values |-> <<value>>])
    ELSE [map EXCEPT ![i].values = <<value>>]

\* HeaderMap::get: the first value of the name
header_get(map, name) ==
    LET i == header_index(map, name) IN
    IF i = 0 THEN None ELSE Some(map[i].values[1])

\* HeaderMap::iter: every (name, value), entry by entry
RECURSIVE header_iter(_)
header_iter(map) ==
    IF map = <<>> THEN <<>>
    ELSE [k \in 1..Len(map[1].values) |-> <<map[1].name, map[1].values[k]>>]
         \o header_iter(Tail(map))

\* the map the HTTP parser builds from the header lines of a message
RECURSIVE header_map_of(_)
header_map_of(lines) ==
    IF lines = <<>> THEN <<>>
    ELSE LET rest == header_map_of(SubSeq(lines, 1, Len(lines) - 1))
             last == lines[Len(lines)]
         IN  header_append(rest, last[1], last[2])

\* symbols of a header value that are not visible ASCII (obs-text bytes)
OpaqueSymbols == {"0xE9"}

\* HeaderValue::to_str: the text, unless a byte is not visible ASCII
to_str(value) ==
    IF \E i \in 1..Len(value) : value[i] \in OpaqueSymbols THEN None ELSE Some(value)

\* Option::unwrap_or / Result::unwrap_or
unwrap_or(opt, default) == IF opt = None THEN default ELSE opt[1]

\* ------------------------------------------------------------------ Uri
\* Uri::path: empty when the URI has no path-and-query part
uri_path(uri) ==
    IF uri.path_and_query = None THEN <<>> ELSE uri.path_and_query[1].path

\* PathAndQuery::as_str
path_and_query_as_str(pq) ==
    pq.path \o (IF pq.query = None THEN <<>> ELSE <<"?">> \o pq.query[1])

\* symbols that are no URI characters
InvalidUriSymbols == {" "}

\* Uri parsing by request::Builder::uri: fails on a character no URI may hold
uri_parses(s) == \A i \in 1..Len(s) : s[i] \notin InvalidUriSymbols

\* the client needs a scheme and an authority to pick a connection
uri_is_absolute(s) == Len(s) > 0 /\ s[1] = "http://localhost:8000"

\* ---------------------------------------------------------------- Config
DefaultPort == 8080

Config_default ==
    [target |-> <<"http://localhost:8000">>,
     port |-> DefaultPort,
     blocked_folders |-> <<<<"private">>>>]

\* mutant: the clone carries the default blocked_folders
Config_clone_default_folders(self) ==
    [target |-> self.target,
     port |-> self.port,
     blocked_folders |-> <<<<"private">>>>]

\* impl Clone for Config
Config_clone(self) ==
    [target |-> self.target,
     port |-> self.port,
     blocked_folders |-> self.blocked_folders]

\* toml::to_string_pretty(&Config): one key = value line per field, in
\* declaration order
toml_to_string_pretty(cfg) ==
    << <<"target", cfg.target>>,
       <<"port", cfg.port>>,
       <<"blocked_folders", cfg.blocked_folders>> >>

\* ------------------------------------------------------------ responses
StatusForbidden == 403
StatusMethodNotAllowed == 405
StatusBadGateway == 502

\* Response::builder().status(..).body(Body::from(..)).unwrap()
local_response(status, body) ==
    [status |-> status, headers |-> <<>>, body |-> body]

\* the Ok arm of the match: Content-Type of text/plain responses is replaced
rewrite_content_type(response) ==
    LET content_type == header_get(response.headers, "content-type") IN
    IF /\ content_type # None
       /\ starts_with(unwrap_or(to_str(content_type[1]), <<>>), <<"text/plain">>)
    THEN [response EXCEPT !.headers =
             header_insert(@, "content-type", <<"text/plain", "; charset=utf-8">>)]
    ELSE response

\* ------------------------------------------------------ forwarded request
\* mutant: every copied header replaces the values of its name
RECURSIVE copy_headers_insert(_, _)
copy_headers_insert(builder_headers, pairs) ==
    IF pairs = <<>> THEN builder_headers
    ELSE copy_headers_insert(header_insert(builder_headers, pairs[1][1], pairs[1][2]),
                             Tail(pairs))

\* the for loop over req.headers(): Builder::header appends each pair
RECURSIVE copy_headers(_, _)
copy_headers(builder_headers, pairs) ==
    IF pairs = <<>> THEN builder_headers
    ELSE copy_headers(header_append(builder_headers, pairs[1][1], pairs[1][2]),
                      Tail(pairs))

\* format!("{}{}", config.target, path_and_query or "/")
forward_uri(req, config) ==
    config.target \o
    (IF req.uri.path_and_query = None THEN <<"/">>
     ELSE path_and_query_as_str(req.uri.path_and_query[1]))

\* Request::builder().method(..).uri(..).header(..)*.body(..): None when the
\* builder holds an error, which the unwrap turns into a panic
build_forwarded_req(req, config) ==
    LET uri == forward_uri(req, config) IN
    IF uri_parses(uri)
    THEN Some([method |-> req.method, uri |-> uri,
               headers |-> copy_headers(<<>>, header_iter(req.headers)),
               body |-> req.body])
    ELSE None

\* ================================================================= state
VARIABLES
    argPath,        \* is_path_blocked called alone: its path argument
    argBlocked,     \* ... its blocked_folders argument
    retBlocked,     \* ... None before the call, Some(result) after it
    scan,           \* is_path_blocked run step by step: where its loop is
    mainPc,         \* where main is: "load", "example", "bind", "serving", "exited"
    config,         \* None until load_config returns Ok, then Some(Config)
    exampleWrites,  \* the contents handed to fs::write("example_config.toml", ..)
    exampleFile,    \* example_config.toml: None when absent, else Some(content)
    listening,      \* whether the listener is bound
    exitCode,       \* None while the process runs, then Some(code)
    hpc,            \* per request: where proxy_handler is
    req,            \* per request: None, or Some(the inbound request)
    hconfig,        \* per request: None, or Some(the Config the handler was given)
    forwarded,      \* per request: the requests handed to client.request
    upstream,       \* per request: None, or Some(what the await returned)
    resp,           \* per request: the responses proxy_handler returned
    stages          \* per request: the pipeline stages run so far

matchVars == <<argPath, argBlocked, retBlocked, scan>>
mainVars == <<mainPc, config, exampleWrites, exampleFile, listening, exitCode>>
handlerVars == <<hpc, req, hconfig, forwarded, upstream, resp, stages>>
vars == <<matchVars, mainVars, handlerVars>>

\* ------------------------------------------------------------------ bounds
\* request slots: the requests the listener takes in one run
MaxRequests == 2
\* header lines of an inbound request
MaxHeaders == 2

Slots == 1..MaxRequests

\* ------------------------------------------------------------ input sets
Methods == {"GET", "POST", "PUT", "DELETE"}

Targets == {<<"http://localhost:8000">>, <<>>, <<"http://localhost:8000", " ">>}

Blocklists == {<<>>, <<<<"private">>>>, <<<<>>>>, <<<<"room">>, <<"private">>>>}

Configs ==
    {[target |-> t, port |-> DefaultPort, blocked_folders |-> b] :
        t \in Targets, b \in Blocklists}

RequestPaths ==
    {<<"/">>, <<"/", "private">>, <<"/", "private", "/", "room">>,
     <<"/", "private", "room">>, <<"/", "/", "private">>, <<"/", "room">>}

Uris ==
    {[path_and_query |-> None],
     [path_and_query |-> Some([path |-> <<"/", "room">>, query |-> Some(<<"q=1">>)])]}
    \cup
    {[path_and_query |-> Some([path |-> p, query |-> None])] : p \in RequestPaths}

HeaderLines ==
    {<<"host", <<"example.org">>>>, <<"x-test", <<"abc">>>>, <<"x-test", <<"def">>>>}

RequestHeaders == {header_map_of(lines) : lines \in SeqsUpTo(HeaderLines, MaxHeaders)}

\* every request a single handler run is checked on
Requests ==
    {[method |-> m, uri |-> u, headers |-> h, body |-> b] :
        m \in Methods, u \in Uris, h \in RequestHeaders, b \in {<<"payload">>}}

\* the requests of the runs of the whole server
ServerRequests ==
    {[method |-> m, uri |-> [path_and_query |-> Some([path |-> p, query |-> None])],
      headers |-> header_map_of(<< <<"host", <<"example.org">>>> >>), body |-> <<>>] :
        m \in {"GET", "POST", "PUT"}, p \in {<<"/", "private">>, <<"/", "room">>}}
    \cup
    {[method |-> "GET",
      uri |-> [path_and_query |-> Some([path |-> p, query |-> Some(<<"q=1">>)])],
      headers |-> header_map_of(<< <<"x-test", <<"abc">>>> >>),
      body |-> <<"payload">>] :
        p \in {<<"/", "private">>, <<"/", "room">>}}

ContentTypes ==
    {<<"text/plain">>, <<"text/plain", "; charset=latin1">>, <<"text/html">>,
     <<"Text/Plain">>, <<"TEXT/PLAIN", "; charset=latin1">>,
     <<"text/plain", "; name=", "0xE9">>}

UpstreamHeaders ==
    {<<>>, header_map_of(<< <<"server", <<"simple-http-server">>>> >>)} \cup
    {header_map_of(<< <<"server", <<"simple-http-server">>>>, <<"content-type", ct>> >>) :
        ct \in ContentTypes} \cup
    {header_map_of(<< <<"content-type", <<"text/plain">>>>, <<"x-a", <<"1">>>>,
                      <<"content-type", <<"text/html">>>> >>)}

\* what the target may answer
UpstreamResponses ==
    {[status |-> 200, headers |-> h, body |-> <<"content">>] : h \in UpstreamHeaders}
    \cup
    {[status |-> st, headers |-> <<>>, body |-> <<>>] : st \in {403, 502}}

\* the answers of the runs of the whole server
ServerUpstreamResponses ==
    {[status |-> 200,
      headers |-> header_map_of(<< <<"content-type", <<"text/plain">>>> >>),
      body |-> <<"content">>],
     [status |-> 404, headers |-> <<>>, body |-> <<>>]}

\* --------------------------------------------------------- initial states
HandlersIdle ==
    /\ hpc = [r \in Slots |-> "idle"]
    /\ req = [r \in Slots |-> None]
    /\ hconfig = [r \in Slots |-> None]
    /\ forwarded = [r \in Slots |-> <<>>]
    /\ upstream = [r \in Slots |-> None]
    /\ resp = [r \in Slots |-> <<>>]
    /\ stages = [r \in Slots |-> <<>>]

\* the loop of is_path_blocked before it is entered
ScanIdle == [pc |-> "idle", normalized_path |-> <<>>, i |-> 0, slice_start |-> 0]

MatchIdle ==
    /\ argPath = <<>>
    /\ argBlocked = <<>>
    /\ retBlocked = None
    /\ scan = ScanIdle

\* the process right after Args::parse
Init ==
    /\ MatchIdle
    /\ mainPc = "load"
    /\ config = None
    /\ exampleWrites = <<>>
    /\ exampleFile = None
    /\ listening = FALSE
    /\ exitCode = None
    /\ HandlersIdle

\* =================================================================== main
\* load_config returns Ok(config)
LoadConfigOk ==
    /\ mainPc = "load"
    /\ \E c \in Configs : config' = Some(c)
    /\ mainPc' = "bind"
    /\ UNCHANGED <<exampleWrites, exampleFile, listening, exitCode>>
    /\ UNCHANGED <<matchVars, handlerVars>>

\* load_config returns Err: the file is unreadable or is no valid Config
LoadConfigErr ==
    /\ mainPc = "load"
    /\ mainPc' = "example"
    /\ UNCHANGED <<config, exampleWrites, exampleFile, listening, exitCode>>
    /\ UNCHANGED <<matchVars, handlerVars>>

\* mutant: the process exits with 1 only when the example file was written
WriteExampleConfig_exit_on_success ==
    /\ mainPc = "example"
    /\ LET example_toml == toml_to_string_pretty(Config_default) IN
       /\ exampleWrites' = Append(exampleWrites, example_toml)
       /\ \/ exampleFile' = Some(example_toml) /\ exitCode' = Some(1)
          \/ exampleFile' \in {exampleFile, Some(<<>>)} /\ exitCode' = Some(0)
    /\ mainPc' = "exited"
    /\ UNCHANGED <<config, listening>>
    /\ UNCHANGED <<matchVars, handlerVars>>

\* the Err arm: the default configuration is written to example_config.toml,
\* the write succeeds or fails (leaving the file as it was, or empty), and
\* the process exits with 1
WriteExampleConfig ==
    /\ mainPc = "example"
    /\ LET example_toml == toml_to_string_pretty(Config_default) IN
       /\ exampleWrites' = Append(exampleWrites, example_toml)
       /\ \/ exampleFile' = Some(example_toml)
          \/ exampleFile' \in {exampleFile, Some(<<>>)}
    /\ exitCode' = Some(1)
    /\ mainPc' = "exited"
    /\ UNCHANGED <<config, listening>>
    /\ UNCHANGED <<matchVars, handlerVars>>

\* Server::bind(&addr).serve(make_svc) binds the listener
BindOk ==
    /\ mainPc = "bind"
    /\ listening' = TRUE
    /\ mainPc' = "serving"
    /\ UNCHANGED <<config, exampleWrites, exampleFile, exitCode>>
    /\ UNCHANGED <<matchVars, handlerVars>>

\* Server::bind panics when the address cannot be bound
BindPanics ==
    /\ mainPc = "bind"
    /\ exitCode' = Some(101)
    /\ mainPc' = "exited"
    /\ UNCHANGED <<config, exampleWrites, exampleFile, listening>>
    /\ UNCHANGED <<matchVars, handlerVars>>

\* mutant: a failed listener is bound again
ServerError_rebinds ==
    /\ mainPc = "serving"
    /\ listening' = FALSE
    /\ mainPc' = "bind"
    /\ UNCHANGED <<config, exampleWrites, exampleFile, exitCode>>
    /\ UNCHANGED <<matchVars, handlerVars>>

\* server.await returns Err: main prints it and returns
ServerError ==
    /\ mainPc = "serving"
    /\ listening' = FALSE
    /\ exitCode' = Some(0)
    /\ mainPc' = "exited"
    /\ UNCHANGED <<config, exampleWrites, exampleFile>>
    /\ UNCHANGED <<matchVars, handlerVars>>

\* ========================================================== proxy_handler
\* the service closure is called with a request and a clone of the config
Accept(r, requests) ==
    /\ mainPc = "serving"
    /\ hpc[r] = "idle"
    /\ \E q \in requests : req' = [req EXCEPT ![r] = Some(q)]
    /\ LET config_clone == Config_clone(config[1])
           connection_config == Config_clone(config_clone)
       IN  hconfig' = [hconfig EXCEPT ![r] = Some(Config_clone(connection_config))]
    /\ hpc' = [hpc EXCEPT ![r] = "block_check"]
    /\ UNCHANGED <<forwarded, upstream, resp, stages>>
    /\ UNCHANGED <<matchVars, mainVars>>

\* mutant: the method is checked before the path
BlockCheck_after_method(r) ==
    /\ mainPc = "serving"
    /\ hpc[r] = "block_check"
    /\ stages' = [stages EXCEPT ![r] = Append(@, "block_check")]
    /\ IF req[r][1].method \notin {"GET", "POST"}
       THEN /\ resp' = [resp EXCEPT ![r] = Append(@,
                 local_response(StatusMethodNotAllowed,
                     <<"method not allowed (we only use get and post.)">>))]
            /\ hpc' = [hpc EXCEPT ![r] = "done"]
       ELSE IF is_path_blocked(uri_path(req[r][1].uri), hconfig[r][1].blocked_folders)
       THEN /\ resp' = [resp EXCEPT ![r] = Append(@,
                 local_response(StatusForbidden,
                     <<"Access to this folder is forbidden">>))]
            /\ hpc' = [hpc EXCEPT ![r] = "done"]
       ELSE /\ hpc' = [hpc EXCEPT ![r] = "method_check"]
            /\ UNCHANGED resp
    /\ UNCHANGED <<req, forwarded, upstream>>
    /\ UNCHANGED <<matchVars, mainVars, hconfig>>

\* mutant: the check is given the path with the query
BlockCheck_on_path_and_query(r) ==
    /\ mainPc = "serving"
    /\ hpc[r] = "block_check"
    /\ stages' = [stages EXCEPT ![r] = Append(@, "block_check")]
    /\ IF is_path_blocked(
              IF req[r][1].uri.path_and_query = None THEN <<>>
              ELSE path_and_query_as_str(req[r][1].uri.path_and_query[1]),
              hconfig[r][1].blocked_folders)
       THEN /\ resp' = [resp EXCEPT ![r] = Append(@,
                 local_response(StatusForbidden,
                     <<"Access to this folder is forbidden">>))]
            /\ hpc' = [hpc EXCEPT ![r] = "done"]
       ELSE /\ hpc' = [hpc EXCEPT ![r] = "method_check"]
            /\ UNCHANGED resp
    /\ UNCHANGED <<req, forwarded, upstream>>
    /\ UNCHANGED <<matchVars, mainVars, hconfig>>

\* the blocked-path check: 403 and return, or go on
BlockCheck(r) ==
    /\ mainPc = "serving"
    /\ hpc[r] = "block_check"
    /\ stages' = [stages EXCEPT ![r] = Append(@, "block_check")]
    /\ IF is_path_blocked(uri_path(req[r][1].uri), hconfig[r][1].blocked_folders)
       THEN /\ resp' = [resp EXCEPT ![r] = Append(@,
                 local_response(StatusForbidden,
                     <<"Access to this folder is forbidden">>))]
            /\ hpc' = [hpc EXCEPT ![r] = "done"]
       ELSE /\ hpc' = [hpc EXCEPT ![r] = "method_check"]
            /\ UNCHANGED resp
    /\ UNCHANGED <<req, forwarded, upstream>>
    /\ UNCHANGED <<matchVars, mainVars, hconfig>>

\* mutant: every method is forwarded
MethodCheck_allow_all(r) ==
    /\ mainPc = "serving"
    /\ hpc[r] = "method_check"
    /\ stages' = [stages EXCEPT ![r] = Append(@, "method_check")]
    /\ hpc' = [hpc EXCEPT ![r] = "forward"]
    /\ UNCHANGED <<req, forwarded, upstream, resp>>
    /\ UNCHANGED <<matchVars, mainVars, hconfig>>

\* the method check: 405 and return unless the method is GET or POST
MethodCheck(r) ==
    /\ mainPc = "serving"
    /\ hpc[r] = "method_check"
    /\ stages' = [stages EXCEPT ![r] = Append(@, "method_check")]
    /\ IF req[r][1].method # "GET" /\ req[r][1].method # "POST"
       THEN /\ resp' = [resp EXCEPT ![r] = Append(@,
                 local_response(StatusMethodNotAllowed,
                     <<"method not allowed (we only use get and post.)">>))]
            /\ hpc' = [hpc EXCEPT ![r] = "done"]
       ELSE /\ hpc' = [hpc EXCEPT ![r] = "forward"]
            /\ UNCHANGED resp
    /\ UNCHANGED <<req, forwarded, upstream>>
    /\ UNCHANGED <<matchVars, mainVars, hconfig>>

\* mutant: one client for all requests, taken while a call is in flight
ForwardRequest_one_call_at_a_time(r) ==
    /\ mainPc = "serving"
    /\ hpc[r] = "forward"
    /\ \A s \in Slots \ {r} : hpc[s] # "await"
    /\ stages' = [stages EXCEPT ![r] = Append(@, "forward")]
    /\ LET forwarded_req == build_forwarded_req(req[r][1], hconfig[r][1]) IN
       IF forwarded_req = None
       THEN /\ hpc' = [hpc EXCEPT ![r] = "panicked"]
            /\ UNCHANGED forwarded
       ELSE /\ forwarded' = [forwarded EXCEPT ![r] = Append(@, forwarded_req[1])]
            /\ hpc' = [hpc EXCEPT ![r] = "await"]
    /\ UNCHANGED <<req, upstream, resp>>
    /\ UNCHANGED <<matchVars, mainVars, hconfig>>

\* the forwarded request is built and handed to client.request; the unwrap
\* of the builder's result panics when the URI did not parse
ForwardRequest(r) ==
    /\ mainPc = "serving"
    /\ hpc[r] = "forward"
    /\ stages' = [stages EXCEPT ![r] = Append(@, "forward")]
    /\ LET forwarded_req == build_forwarded_req(req[r][1], hconfig[r][1]) IN
       IF forwarded_req = None
       THEN /\ hpc' = [hpc EXCEPT ![r] = "panicked"]
            /\ UNCHANGED forwarded
       ELSE /\ forwarded' = [forwarded EXCEPT ![r] = Append(@, forwarded_req[1])]
            /\ hpc' = [hpc EXCEPT ![r] = "await"]
    /\ UNCHANGED <<req, upstream, resp>>
    /\ UNCHANGED <<matchVars, mainVars, hconfig>>

\* mutant: a failed call is tried once more before the 502
AwaitErr_retry(r) ==
    /\ mainPc = "serving"
    /\ hpc[r] = "await"
    /\ upstream' = [upstream EXCEPT ![r] =
          Some([ok |-> FALSE,
                error |-> IF uri_is_absolute(forwarded[r][1].uri)
                          THEN "transport" ELSE "absolute_uri_required",
                response |-> None])]
    /\ forwarded' = [forwarded EXCEPT ![r] = Append(@, forwarded[r][1])]
    /\ resp' = [resp EXCEPT ![r] = Append(@,
          local_response(StatusBadGateway, <<"Bad Gateway">>))]
    /\ hpc' = [hpc EXCEPT ![r] = "done"]
    /\ UNCHANGED <<req, stages>>
    /\ UNCHANGED <<matchVars, mainVars, hconfig>>

\* mutant: failures are counted across requests, and a failure after an
\* earlier request has ended is answered 503
AwaitErr_counting(r) ==
    /\ mainPc = "serving"
    /\ hpc[r] = "await"
    /\ upstream' = [upstream EXCEPT ![r] =
          Some([ok |-> FALSE,
                error |-> IF uri_is_absolute(forwarded[r][1].uri)
                          THEN "transport" ELSE "absolute_uri_required",
                response |-> None])]
    /\ resp' = [resp EXCEPT ![r] = Append(@,
          IF \E s \in Slots \ {r} : hpc[s] = "done"
          THEN local_response(503, <<"Bad Gateway">>)
          ELSE local_response(StatusBadGateway, <<"Bad Gateway">>))]
    /\ hpc' = [hpc EXCEPT ![r] = "done"]
    /\ UNCHANGED <<req, forwarded, stages>>
    /\ UNCHANGED <<matchVars, mainVars, hconfig>>

\* the await returns Err: the client refused a URI that is not absolute, or
\* the transport failed; the Err arm answers 502
AwaitErr(r) ==
    /\ mainPc = "serving"
    /\ hpc[r] = "await"
    /\ upstream' = [upstream EXCEPT ![r] =
          Some([ok |-> FALSE,
                error |-> IF uri_is_absolute(forwarded[r][1].uri)
                          THEN "transport" ELSE "absolute_uri_required",
                response |-> None])]
    /\ resp' = [resp EXCEPT ![r] = Append(@,
          local_response(StatusBadGateway, <<"Bad Gateway">>))]
    /\ hpc' = [hpc EXCEPT ![r] = "done"]
    /\ UNCHANGED <<req, forwarded, stages>>
    /\ UNCHANGED <<matchVars, mainVars, hconfig>>

\* the await returns Ok(response): the Ok arm rewrites the Content-Type and
\* returns the response
AwaitOk(r, responses) ==
    /\ mainPc = "serving"
    /\ hpc[r] = "await"
    /\ uri_is_absolute(forwarded[r][1].uri)
    /\ \E u \in responses :
        /\ upstream' = [upstream EXCEPT ![r] =
              Some([ok |-> TRUE, error |-> "", response |-> Some(u)])]
        /\ resp' = [resp EXCEPT ![r] = Append(@, rewrite_content_type(u))]
    /\ stages' = [stages EXCEPT ![r] = Append(@, "rewrite")]
    /\ hpc' = [hpc EXCEPT ![r] = "done"]
    /\ UNCHANGED <<req, forwarded>>
    /\ UNCHANGED <<matchVars, mainVars, hconfig>>

\* ========================================================= specifications
\* the whole server: main, and the handlers of the requests it takes
Next ==
    \/ LoadConfigOk
    \/ LoadConfigErr
    \/ WriteExampleConfig
    \/ BindOk
    \/ BindPanics
    \/ ServerError
    \/ \E r \in Slots : Accept(r, ServerRequests)
    \/ \E r \in Slots : BlockCheck(r)
    \/ \E r \in Slots : MethodCheck(r)
    \/ \E r \in Slots : ForwardRequest(r)
    \/ \E r \in Slots : AwaitErr(r)
    \/ \E r \in Slots : AwaitOk(r, ServerUpstreamResponses)

Spec == Init /\ [][Next]_vars

\* one run of proxy_handler, on every request, configuration and answer
InitHandler ==
    /\ MatchIdle
    /\ mainPc = "serving"
    /\ config \in {Some(c) : c \in Configs}
    /\ exampleWrites = <<>>
    /\ exampleFile = None
    /\ listening = TRUE
    /\ exitCode = None
    /\ HandlersIdle

NextHandler ==
    \/ Accept(1, Requests)
    \/ BlockCheck(1)
    \/ MethodCheck(1)
    \/ ForwardRequest(1)
    \/ AwaitErr(1)
    \/ AwaitOk(1, UpstreamResponses)

SpecHandler == InitHandler /\ [][NextHandler]_vars

\* is_path_blocked alone, on every path and blocklist within the bounds
InitMatch ==
    /\ argPath \in SeqsUpTo(PathSymbols, MaxPathLen)
    /\ argBlocked \in SeqsUpTo(SeqsUpTo(PathSymbols, MaxEntryLen), MaxBlocked)
    /\ retBlocked = None
    /\ scan = ScanIdle
    /\ mainPc = "load"
    /\ config = None
    /\ exampleWrites = <<>>
    /\ exampleFile = None
    /\ listening = FALSE
    /\ exitCode = None
    /\ HandlersIdle

CallIsPathBlocked ==
    /\ retBlocked = None
    /\ retBlocked' = Some(is_path_blocked(argPath, argBlocked))
    /\ UNCHANGED <<argPath, argBlocked, scan>>
    /\ UNCHANGED <<mainVars, handlerVars>>

NextMatch == CallIsPathBlocked

SpecMatch == InitMatch /\ [][NextMatch]_vars

\* is_path_blocked statement by statement, on the same inputs
InitScan == InitMatch

\* let normalized_path = path.trim_start_matches('/'), and the loop is entered
ScanStart ==
    /\ scan.pc = "idle"
    /\ retBlocked = None
    /\ scan' = [pc |-> "loop",
                normalized_path |-> trim_start_matches(argPath, "/"),
                i |-> 1,
                slice_start |-> 0]
    /\ UNCHANGED <<argPath, argBlocked, retBlocked>>
    /\ UNCHANGED <<mainVars, handlerVars>>

\* mutant: the slice is taken without the starts_with test
ScanPrefixTest_unguarded ==
    /\ scan.pc = "loop"
    /\ IF scan.i > Len(argBlocked)
       THEN /\ scan' = [scan EXCEPT !.pc = "return"]
            /\ retBlocked' = Some(FALSE)
       ELSE /\ scan' = [scan EXCEPT !.pc = "slice"]
            /\ UNCHANGED retBlocked
    /\ UNCHANGED <<argPath, argBlocked>>
    /\ UNCHANGED <<mainVars, handlerVars>>

\* the loop head and the starts_with test: the next entry, or false after
\* the last one
ScanPrefixTest ==
    /\ scan.pc = "loop"
    /\ IF scan.i > Len(argBlocked)
       THEN /\ scan' = [scan EXCEPT !.pc = "return"]
            /\ retBlocked' = Some(FALSE)
       ELSE /\ IF starts_with(scan.normalized_path, argBlocked[scan.i])
               THEN scan' = [scan EXCEPT !.pc = "slice"]
               ELSE scan' = [scan EXCEPT !.i = @ + 1]
            /\ UNCHANGED retBlocked
    /\ UNCHANGED <<argPath, argBlocked>>
    /\ UNCHANGED <<mainVars, handlerVars>>

\* &normalized_path[blocked_folder.len()..] and the folder-boundary test;
\* a slice that starts past the end of the string panics
ScanSlice ==
    /\ scan.pc = "slice"
    /\ LET blocked_folder == argBlocked[scan.i]
           start == Len(blocked_folder) IN
       IF start > Len(scan.normalized_path)
       THEN /\ scan' = [scan EXCEPT !.pc = "panicked", !.slice_start = start]
            /\ UNCHANGED retBlocked
       ELSE LET after_folder == slice_from(scan.normalized_path, start) IN
            IF after_folder = <<>> \/ starts_with(after_folder, <<"/">>)
            THEN /\ scan' = [scan EXCEPT !.pc = "return", !.slice_start = start]
                 /\ retBlocked' = Some(TRUE)
            ELSE /\ scan' = [scan EXCEPT !.pc = "loop", !.i = @ + 1,
                                         !.slice_start = start]
                 /\ UNCHANGED retBlocked
    /\ UNCHANGED <<argPath, argBlocked>>
    /\ UNCHANGED <<mainVars, handlerVars>>

NextScan ==
    \/ ScanStart
    \/ ScanPrefixTest
    \/ ScanSlice

\* the function is a synchronous call: once entered it runs on
SpecScan == InitScan /\ [][NextScan]_vars /\ WF_vars(NextScan)

\* ================================================================= claims
\* a is a prefix of b
IsPrefix(a, b) == \E k \in 0..Len(b) : a = SubSeq(b, 1, k)

\* p without one leading "/"
StripOneSlash(p) == IF Len(p) > 0 /\ p[1] = "/" THEN SubSeq(p, 2, Len(p)) ELSE p

\* p without any of its leading "/"
StripAllSlashes(p) ==
    LET k == CHOOSE n \in 0..Len(p) :
                 /\ \A i \in 1..n : p[i] = "/"
                 /\ n = Len(p) \/ p[n + 1] # "/"
    IN  SubSeq(p, k + 1, Len(p))

\* some entry of B is n, or is followed by "/" at the start of n
SomeEntryMatches(n, B) ==
    \E i \in 1..Len(B) : n = B[i] \/ IsPrefix(B[i] \o <<"/">>, n)

OnlySlashes(p) == \A i \in 1..Len(p) : p[i] = "/"

\* C1, as stated: is_path_blocked(p, B) is true iff some entry e of B is
\* normalize(p) or is followed by "/" at the start of normalize(p), where
\* normalize strips exactly one leading "/".
C1_one_slash_stripped ==
    retBlocked # None =>
        retBlocked[1] = SomeEntryMatches(StripOneSlash(argPath), argBlocked)

\* C1, amended: is_path_blocked(p, B) is true iff some entry e of B is
\* normalize(p) or is followed by "/" at the start of normalize(p), where
\* normalize strips every leading "/".
C1_all_slashes_stripped ==
    retBlocked # None =>
        retBlocked[1] = SomeEntryMatches(StripAllSlashes(argPath), argBlocked)

C1_witness ==
    /\ argPath = <<"/", "/", "private", "/">>
    /\ argBlocked = <<<<"room">>, <<"private">>>>
    /\ retBlocked = Some(TRUE)

\* C9, as stated: a blocklist that holds the empty string blocks every
\* path, and the empty blocklist blocks no path.
C9_empty_entry_blocks_all ==
    retBlocked # None =>
        /\ (\E i \in 1..Len(argBlocked) : argBlocked[i] = <<>>) => retBlocked[1]
        /\ argBlocked = <<>> => ~retBlocked[1]

\* C9, amended: a blocklist that holds the empty string blocks every path
\* that is empty or made of "/" only; when the empty string is its only
\* entry it blocks no other path; and the empty blocklist blocks no path.
C9_empty_entry_blocks_root ==
    retBlocked # None =>
        /\ (/\ \E i \in 1..Len(argBlocked) : argBlocked[i] = <<>>
            /\ OnlySlashes(argPath)) => retBlocked[1]
        /\ (/\ argBlocked # <<>>
            /\ \A i \in 1..Len(argBlocked) : argBlocked[i] = <<>>)
               => (retBlocked[1] <=> OnlySlashes(argPath))
        /\ argBlocked = <<>> => ~retBlocked[1]

C9_witness ==
    /\ argPath = <<"/", "room">>
    /\ argBlocked = <<<<>>>>
    /\ retBlocked = Some(FALSE)

\* ---- the handler's claims
Blocked(r) == is_path_blocked(uri_path(req[r][1].uri), config[1].blocked_folders)

Forwardable(r) == req[r][1].method \in {"GET", "POST"}

Finished(r) == hpc[r] \in {"done", "panicked"}

\* C2: a request to a blocked path is answered 403 "Access to this folder
\* is forbidden" right after the block check, whatever its method, and no
\* request is handed to the upstream client for it.
C2_blocked_is_403 ==
    \A r \in Slots :
        (hpc[r] \notin {"idle", "block_check"} /\ Blocked(r)) =>
            /\ hpc[r] = "done"
            /\ stages[r] = <<"block_check">>
            /\ Len(resp[r]) = 1
            /\ resp[r][1].status = 403
            /\ resp[r][1].body = <<"Access to this folder is forbidden">>
            /\ forwarded[r] = <<>>
            /\ upstream[r] = None

C2_witness ==
    \E r \in Slots :
        /\ hpc[r] = "done"
        /\ Blocked(r)
        /\ req[r][1].method = "DELETE"
        /\ ~uri_is_absolute(config[1].target)
        /\ resp[r][1].status = 403

\* C3: a request to a path that is not blocked, with a method other than
\* GET and POST, is answered by a local 405 with a text body, and no
\* request is handed to the upstream client for it.
C3_other_method_is_405 ==
    \A r \in Slots :
        (/\ hpc[r] \notin {"idle", "block_check", "method_check"}
         /\ ~Blocked(r)
         /\ ~Forwardable(r)) =>
            /\ hpc[r] = "done"
            /\ stages[r] = <<"block_check", "method_check">>
            /\ Len(resp[r]) = 1
            /\ resp[r][1].status = 405
            /\ resp[r][1].headers = <<>>
            /\ resp[r][1].body # <<>>
            /\ forwarded[r] = <<>>
            /\ upstream[r] = None

C3_witness ==
    \E r \in Slots :
        /\ hpc[r] = "done"
        /\ ~Blocked(r)
        /\ req[r][1].method = "PUT"
        /\ resp[r][1].status = 405

\* C4: when the upstream call of a GET or POST request to a path that is
\* not blocked fails in the transport, the answer is 502 "Bad Gateway" and
\* the request was handed to the upstream client exactly once.
C4_transport_failure_is_502 ==
    \A r \in Slots :
        (/\ upstream[r] # None
         /\ ~upstream[r][1].ok
         /\ upstream[r][1].error = "transport") =>
            /\ Forwardable(r)
            /\ ~Blocked(r)
            /\ hpc[r] = "done"
            /\ Len(resp[r]) = 1
            /\ resp[r][1].status = 502
            /\ resp[r][1].body = <<"Bad Gateway">>
            /\ Len(forwarded[r]) = 1

C4_witness ==
    \E r \in Slots :
        /\ hpc[r] = "done"
        /\ req[r][1].method = "GET"
        /\ upstream[r] # None
        /\ upstream[r][1].error = "transport"
        /\ resp[r][1].status = 502

\* the headers the claim expects: a Content-Type entry whose value starts
\* with text/plain holds exactly "text/plain; charset=utf-8", every other
\* entry is the upstream's
ExpectedHeaders(headers) ==
    [i \in 1..Len(headers) |->
        IF /\ headers[i].name = "content-type"
           /\ IsPrefix(<<"text/plain">>, headers[i].values[1])
        THEN [name |-> "content-type",
              values |-> << <<"text/plain", "; charset=utf-8">> >>]
        ELSE headers[i]]

\* C5: when the upstream call of a forwarded request succeeds, the answer
\* has the upstream's status and body, and the upstream's headers, except
\* that a Content-Type value starting with "text/plain" becomes exactly
\* "text/plain; charset=utf-8".
C5_success_passes_through ==
    \A r \in Slots :
        (upstream[r] # None /\ upstream[r][1].ok) =>
            LET u == upstream[r][1].response[1] IN
            /\ Len(resp[r]) = 1
            /\ resp[r][1].status = u.status
            /\ resp[r][1].body = u.body
            /\ resp[r][1].headers = ExpectedHeaders(u.headers)

\* C6: a finished run of proxy_handler has returned exactly one response,
\* and at most one request was handed to the upstream client; no run
\* returns more than one response.
C6_exactly_one_response ==
    \A r \in Slots :
        /\ Len(resp[r]) <= 1
        /\ Len(forwarded[r]) <= 1
        /\ Finished(r) => Len(resp[r]) = 1

\* the outcomes of a run, by where the response was made
Local403(r) ==
    /\ stages[r] = <<"block_check">>
    /\ resp[r] = <<local_response(403, <<"Access to this folder is forbidden">>)>>

Local405(r) ==
    /\ stages[r] = <<"block_check", "method_check">>
    /\ Len(resp[r]) = 1
    /\ resp[r][1].status = 405

Local502(r) ==
    /\ stages[r] = <<"block_check", "method_check", "forward">>
    /\ resp[r] = <<local_response(502, <<"Bad Gateway">>)>>

\* C7: the stages of a run are block check, method check, forward, rewrite,
\* in this order, and a finished run is exactly one of: 403 iff the path is
\* blocked; 405 iff it is not blocked and the method is neither GET nor
\* POST; a request handed to the upstream client iff it is not blocked and
\* the method is GET or POST, then 502 iff that call failed and the
\* rewritten upstream response otherwise. Only a response received from
\* the upstream is rewritten.
C7_outcomes_partition ==
    \A r \in Slots :
        /\ IsPrefix(stages[r], <<"block_check", "method_check", "forward", "rewrite">>)
        /\ Finished(r) =>
            /\ Local403(r) <=> Blocked(r)
            /\ Local405(r) <=> (~Blocked(r) /\ ~Forwardable(r))
            /\ (Len(forwarded[r]) = 1) <=> (~Blocked(r) /\ Forwardable(r))
            /\ (Len(forwarded[r]) = 1) =>
                /\ upstream[r] # None
                /\ Local502(r) <=> ~upstream[r][1].ok
                /\ upstream[r][1].ok =>
                    /\ stages[r] = <<"block_check", "method_check", "forward", "rewrite">>
                    /\ resp[r] = <<rewrite_content_type(upstream[r][1].response[1])>>
            /\ (Len(stages[r]) = 4) => (upstream[r] # None /\ upstream[r][1].ok)

\* the inbound path and query as text, "/" when the URI has neither
InboundPathAndQuery(q) ==
    IF q.uri.path_and_query = None THEN <<"/">>
    ELSE LET pq == q.uri.path_and_query[1] IN
         IF pq.query = None THEN pq.path ELSE pq.path \o <<"?">> \o pq.query[1]

\* C8: the request handed to the upstream client has the inbound method,
\* the URI target + inbound path and query ("/" when there is neither), and
\* the inbound headers: the same names and values in the same order, none
\* dropped, added, changed or merged.
C8_forwarded_request_is_inbound ==
    \A r \in Slots :
        forwarded[r] # <<>> =>
            LET f == forwarded[r][1]
                q == req[r][1]
            IN  /\ f.method = q.method
                /\ f.uri = config[1].target \o InboundPathAndQuery(q)
                /\ header_iter(f.headers) = header_iter(q.headers)
                /\ f.headers = q.headers

C8_witness ==
    \E r \in Slots :
        /\ forwarded[r] # <<>>
        /\ req[r][1].uri.path_and_query = None
        /\ header_iter(forwarded[r][1].headers) =
              << <<"x-test", <<"def">>>>, <<"x-test", <<"abc">>>> >>

\* ---- main's claim
DefaultConfigToml ==
    << <<"target", <<"http://localhost:8000">>>>,
       <<"port", 8080>>,
       <<"blocked_folders", <<<<"private">>>>>> >>

LoadFailed == mainPc \in {"example", "exited"} /\ config = None

\* C10: after a failed configuration load the process writes, or tries to
\* write, the default configuration to example_config.toml once and exits
\* with code 1 whether or not the write succeeded; the listener is never
\* bound and no request is handled.
C10_load_failure_exits_1 ==
    LoadFailed =>
        /\ ~listening
        /\ \A r \in Slots : hpc[r] = "idle" /\ resp[r] = <<>>
        /\ mainPc = "example" => (exampleWrites = <<>> /\ exitCode = None)
        /\ mainPc = "exited" =>
            /\ exampleWrites = <<DefaultConfigToml>>
            /\ exampleFile \in {None, Some(<<>>), Some(DefaultConfigToml)}
            /\ exitCode = Some(1)

C10_witness ==
    /\ LoadFailed
    /\ mainPc = "exited"
    /\ exampleWrites = <<DefaultConfigToml>>
    /\ exampleFile = None
    /\ exitCode = Some(1)

\* ---- the rewriter's letter case
\* a symbol in lower case
LowerCase(sym) == IF sym \in {"Text/Plain", "TEXT/PLAIN"} THEN "text/plain" ELSE sym

LowerCaseText(value) == [i \in 1..Len(value) |-> LowerCase(value[i])]

\* C11: an upstream response whose Content-Type value, a readable text,
\* starts with text/plain in any letter case ("Text/Plain",
\* "TEXT/PLAIN; charset=latin1") is answered with the Content-Type
\* "text/plain; charset=utf-8".
C11_any_case_is_rewritten ==
    \A r \in Slots :
        (upstream[r] # None /\ upstream[r][1].ok) =>
            LET u == upstream[r][1].response[1]
                content_type == header_get(u.headers, "content-type")
            IN  (/\ content_type # None
                 /\ to_str(content_type[1]) # None
                 /\ IsPrefix(<<"text/plain">>, LowerCaseText(content_type[1])))
                => header_get(resp[r][1].headers, "content-type")
                       = Some(<<"text/plain", "; charset=utf-8">>)

\* C12: no run of proxy_handler fails or panics: every run that has ended
\* has returned a response, whatever the request, the configuration and the
\* upstream's answer, the builder unwraps included.
C12_every_error_is_a_response ==
    \A r \in Slots :
        /\ hpc[r] # "panicked"
        /\ hpc[r] \notin {"idle", "block_check", "method_check", "forward", "await"}
              => Len(resp[r]) = 1

\* ---- concurrency
\* the next step of the handler of request r
HandlerStep(r) ==
    \/ BlockCheck(r)
    \/ MethodCheck(r)
    \/ ForwardRequest(r)
    \/ AwaitErr(r)
    \/ AwaitOk(r, ServerUpstreamResponses)

InFlight(r) == hpc[r] \in {"block_check", "method_check", "forward", "await"}

\* C13: while the server serves and a request waits for its upstream
\* response, every other request in flight can take its next step, and a
\* free slot can take a new request: no request waits for another
\* request's upstream call.
C13_await_blocks_no_other_request ==
    \A r \in Slots : \A s \in Slots \ {r} :
        (mainPc = "serving" /\ hpc[r] = "await") =>
            /\ InFlight(s) => ENABLED HandlerStep(s)
            /\ hpc[s] = "idle" => ENABLED Accept(s, ServerRequests)

C13_witness ==
    \E r \in Slots : \E s \in Slots \ {r} :
        /\ mainPc = "serving"
        /\ hpc[r] = "await"
        /\ hpc[s] = "done"
        /\ stages[s] = <<"block_check", "method_check", "forward", "rewrite">>
        /\ Len(resp[s]) = 1

\* C14: two requests that are the same, with the same upstream outcome, get
\* the same response under the one configuration, whatever was handled
\* before or is handled beside them: the response depends on the request,
\* the configuration and that request's upstream outcome only.
C14_same_request_same_response ==
    \A r \in Slots : \A s \in Slots \ {r} :
        (/\ Finished(r) /\ Finished(s)
         /\ req[r] = req[s]
         /\ upstream[r] = upstream[s]) =>
            /\ resp[r] = resp[s]
            /\ hpc[r] = hpc[s]
            /\ forwarded[r] = forwarded[s]
            /\ stages[r] = stages[s]

C14_witness ==
    \E r \in Slots : \E s \in Slots \ {r} :
        /\ hpc[r] = "done" /\ hpc[s] = "done"
        /\ req[r] = req[s]
        /\ req[r][1].method = "GET"
        /\ upstream[r] # None /\ upstream[r] = upstream[s]
        /\ ~upstream[r][1].ok
        /\ resp[r] = resp[s]
        /\ resp[r][1].status = 502

\* C15: once loaded, the configuration never changes, and the Config every
\* handler works with is the loaded one, after any interleaving of blocked,
\* rejected, forwarded and failed requests.
C15_config_is_immutable ==
    [][/\ config # None => config' = config
       /\ \A r \in Slots : hconfig'[r] # None => hconfig'[r] = config']_vars

C15_witness ==
    \E r \in Slots : \E s \in Slots \ {r} :
        /\ Local403(r)
        /\ Local502(s)
        /\ hconfig[r] = config
        /\ hconfig[s] = config
        /\ config[1].blocked_folders = <<<<"private">>>>

\* ---- is_path_blocked: order, slashes
\* B in the order f
Reordered(B, f) == [i \in 1..Len(B) |-> B[f[i]]]

\* C16: the result of is_path_blocked is the same for every order of
\* blocked_folders, and listing an entry twice does not change it.
C16_order_does_not_matter ==
    retBlocked # None =>
        /\ \A f \in Permutations(1..Len(argBlocked)) :
              is_path_blocked(argPath, Reordered(argBlocked, f)) = retBlocked[1]
        /\ \A i \in 1..Len(argBlocked) :
              /\ is_path_blocked(argPath, Append(argBlocked, argBlocked[i]))
                    = retBlocked[1]
              /\ is_path_blocked(argPath, <<argBlocked[i]>> \o argBlocked)
                    = retBlocked[1]

C16_witness ==
    /\ argPath = <<"/", "private">>
    /\ argBlocked = <<<<>>, <<"private">>>>
    /\ retBlocked = Some(TRUE)

\* ---- the server's life
\* the phase main is in
Phase(pc) ==
    IF pc = "serving" THEN "serving"
    ELSE IF pc = "exited" THEN "terminated"
    ELSE "init"

PhaseRank(ph) == IF ph = "init" THEN 0 ELSE IF ph = "serving" THEN 1 ELSE 2

\* C17: the server goes init -> serving -> terminated and never back:
\* requests are handled only while serving, serving is entered only from
\* init with a loaded configuration and a bound listener, serving is left
\* only for terminated, and nothing changes once terminated.
C17_lifecycle_is_forward_only ==
    [][/\ PhaseRank(Phase(mainPc')) >= PhaseRank(Phase(mainPc))
       /\ handlerVars' # handlerVars =>
             (Phase(mainPc) = "serving" /\ Phase(mainPc') = "serving")
       /\ (Phase(mainPc) # "serving" /\ Phase(mainPc') = "serving") =>
             (mainPc = "bind" /\ config # None /\ config' = config /\ listening')
       /\ Phase(mainPc) = "terminated" => vars' = vars
       /\ (Phase(mainPc') = "terminated") = (exitCode' # None)]_vars

C17_witness ==
    /\ mainPc = "exited"
    /\ exitCode = Some(0)
    /\ config # None
    /\ \E r \in Slots : hpc[r] = "done" /\ resp[r][1].status = 200
    /\ \E r \in Slots : hpc[r] = "await"

\* C18: one more leading "/", or two, does not change the result of
\* is_path_blocked: "//private" and "///private/secret.txt" are blocked
\* when "private" is an entry.
C18_extra_slashes_do_not_matter ==
    retBlocked # None =>
        /\ is_path_blocked(<<"/">> \o argPath, argBlocked) = retBlocked[1]
        /\ is_path_blocked(<<"/", "/">> \o argPath, argBlocked) = retBlocked[1]
        /\ (\E i \in 1..Len(argBlocked) : argBlocked[i] = <<"private">>) =>
              /\ is_path_blocked(<<"/", "/", "private">>, argBlocked)
              /\ is_path_blocked(<<"/", "/", "/", "private", "/", "room">>, argBlocked)

C18_witness ==
    /\ argPath = <<"/", "/", "private">>
    /\ argBlocked = <<<<"private">>>>
    /\ retBlocked = Some(TRUE)

\* ---- the 403 decision
\* the decision as a function of the path and the blocklist alone
PathDecision(path, B) == SomeEntryMatches(StripAllSlashes(path), B)

Decided(r) == hpc[r] \notin {"idle", "block_check"}

\* C19: whether a request is answered by the local 403 is decided by its
\* path and blocked_folders alone: two requests with the same path get the
\* same decision, whatever their methods, queries, headers and bodies, and
\* whatever other requests were or are handled.
C19_decision_depends_on_path_only ==
    /\ \A r \in Slots :
          Decided(r) =>
              (Local403(r) <=>
                  PathDecision(uri_path(req[r][1].uri), config[1].blocked_folders))
    /\ \A r \in Slots : \A s \in Slots \ {r} :
          (/\ Decided(r) /\ Decided(s)
           /\ uri_path(req[r][1].uri) = uri_path(req[s][1].uri)) =>
              (Local403(r) <=> Local403(s))

C19_witness ==
    \E r \in Slots : \E s \in Slots \ {r} :
        /\ Local403(r) /\ Local403(s)
        /\ req[r][1].method = "PUT"
        /\ req[r][1].uri.path_and_query[1].query = None
        /\ req[s][1].method = "GET"
        /\ req[s][1].uri.path_and_query[1].query # None
        /\ req[r][1].headers # req[s][1].headers
        /\ uri_path(req[r][1].uri) = uri_path(req[s][1].uri)

\* ---- the scan never fails
ScanSafe ==
    /\ scan.pc # "panicked"
    /\ scan.slice_start <= Len(scan.normalized_path)
    /\ scan.pc \in {"loop", "slice"} => scan.i \in 1..(Len(argBlocked) + 1)
    /\ scan.pc = "slice" =>
          /\ scan.i <= Len(argBlocked)
          /\ Len(argBlocked[scan.i]) <= Len(scan.normalized_path)
    /\ scan.pc \in {"loop", "slice"} => ENABLED NextScan
    /\ scan.pc = "return" =>
          /\ retBlocked \in {Some(TRUE), Some(FALSE)}
          /\ retBlocked[1] = is_path_blocked(argPath, argBlocked)

\* no entry is visited twice
ScanOnePass == scan'.i >= scan.i /\ scan'.i <= scan.i + 1

\* C20: is_path_blocked never fails: whenever the slice is taken its start
\* is at most the length of the normalized path, the loop index only moves
\* forward through blocked_folders, and every call ends with a boolean.
C20_scan_never_fails ==
    /\ []ScanSafe
    /\ [][ScanOnePass]_vars
    /\ <>[](scan.pc = "return")

\* an entry longer than the (empty) normalized path was scanned and the
\* call returned
C20_witness ==
    /\ scan.pc = "return"
    /\ scan.normalized_path = <<>>
    /\ argBlocked = <<<<"private">>, <<>>>>
    /\ scan.i = 2
    /\ retBlocked = Some(TRUE)

=============================================================================
